---- MODULE Spec2Model ----
(***************************************************************************)
(* A model of src/app.py: the /api/process handler process_upcs, i.e. the  *)
(* request checks, the upstream price-history query, the per-record loop   *)
(* that derives the assessment of one product, and the response.           *)
(*                                                                         *)
(* Numbers.  Python floats are modelled as exact rationals <<n, d>> with   *)
(* d > 0 in lowest terms; Python's None is the empty tuple <<>>.  Ranks,   *)
(* seller counts and the risk score are Python ints and stay integers.     *)
(*                                                                         *)
(* A product is the dict the upstream library returns: the presence of its *)
(* fields (data, data.NEW with data.NEW_time, salesRank, offers) and their *)
(* values.  A NEW list of None and an empty one are both the empty         *)
(* sequence (line 84 treats them alike).  The fields of the result that    *)
(* are copied or formatted only (title, asin, the texts and colours,       *)
(* amazon_oos, processed_date) are left out.                               *)
(***************************************************************************)
EXTENDS Integers, Sequences, FiniteSets, TLC

VARIABLES pc, keyConfigured, upcs, query, products, idx, results, errors, response

vars == <<pc, keyConfigured, upcs, query, products, idx, results, errors, response>>

(***************************************************************************)
(* Exact arithmetic                                                        *)
(***************************************************************************)
None == <<>>

Abs(n) == IF n < 0 THEN -n ELSE n

RECURSIVE Gcd(_, _)
Gcd(a, b) == IF b = 0 THEN a ELSE Gcd(b, a % b)

\* the rational n/d (d # 0) in lowest terms with a positive denominator
Rat(n, d) ==
    LET g == Gcd(Abs(n), Abs(d))
        s == IF d < 0 THEN -1 ELSE 1
    IN  <<(s * n) \div g, (s * d) \div g>>

Num(n) == <<n, 1>>

RAdd(a, b) == Rat(a[1] * b[2] + b[1] * a[2], a[2] * b[2])
RSub(a, b) == Rat(a[1] * b[2] - b[1] * a[2], a[2] * b[2])
RMul(a, b) == Rat(a[1] * b[1], a[2] * b[2])
RDiv(a, b) == Rat(a[1] * b[2], a[2] * b[1])
RLt(a, b) == a[1] * b[2] < b[1] * a[2]
RLe(a, b) == a[1] * b[2] <= b[1] * a[2]
RGt(a, b) == RLt(b, a)

RMin2(a, b) == IF RLt(b, a) THEN b ELSE a
RMax2(a, b) == IF RGt(b, a) THEN b ELSE a

\* sum(), min(), max() of a list of numbers (over its first i entries)
RECURSIVE SumTo(_, _)
SumTo(s, i) == IF i = 0 THEN Num(0) ELSE RAdd(SumTo(s, i - 1), s[i])

RSum(s) == SumTo(s, Len(s))

RECURSIVE MinTo(_, _)
MinTo(s, i) == IF i = 1 THEN s[1] ELSE RMin2(MinTo(s, i - 1), s[i])

RMin(s) == MinTo(s, Len(s))

RECURSIVE MaxTo(_, _)
MaxTo(s, i) == IF i = 1 THEN s[1] ELSE RMax2(MaxTo(s, i - 1), s[i])

RMax(s) == MaxTo(s, Len(s))

\* s[-n:] : the last n elements, the whole list when it is shorter
LastN(s, n) == IF Len(s) <= n THEN s ELSE SubSeq(s, Len(s) - n + 1, Len(s))

(***************************************************************************)
(* Program constants                                                       *)
(***************************************************************************)
MaxUpcs == 100
Unranked == 999999
AvgWindow == 30
TrendWindow == 10
HalfWindow == 5
BuyCost == 30
AmazonFeeRate == Rat(15, 100)
FbaFee == Rat(399, 100)
Shipping == Rat(200, 100)
NetRate == Rat(85, 100)
RisingFactor == Rat(105, 100)
FallingFactor == Rat(95, 100)
Hundred == Num(100)

(***************************************************************************)
(* The derivation of one record (the body of the inner try)                *)
(***************************************************************************)

\* valid_prices: the entries that are not None and are > 0, in order
ValidPrices(prices) == SelectSeq(prices, LAMBDA p : p # None /\ RGt(p, Num(0)))

\* price_history (current_price is its last entry)
PriceHistory(product) ==
    IF product.hasData /\ product.hasNEW /\ product.hasNEWtime /\ Len(product.dataNEW) > 0
    THEN ValidPrices(product.dataNEW)
    ELSE <<>>

CurrentPrice(price_history) ==
    IF price_history # <<>> THEN price_history[Len(price_history)] ELSE None

Low90(price_history) == IF price_history # <<>> THEN RMin(price_history) ELSE None

High90(price_history) == IF price_history # <<>> THEN RMax(price_history) ELSE None

\* mutant: the window test is off by one (> instead of >=)
Avg30OffByOne(price_history) ==
    IF Len(price_history) > AvgWindow
    THEN RDiv(RSum(LastN(price_history, AvgWindow)),
              Num(Len(LastN(price_history, AvgWindow))))
    ELSE CurrentPrice(price_history)

\* mutant: a short history is averaged instead of falling back to the spot price
Avg30MeanOfAll(price_history) ==
    IF price_history # <<>>
    THEN RDiv(RSum(LastN(price_history, AvgWindow)),
              Num(Len(LastN(price_history, AvgWindow))))
    ELSE None

Avg30(price_history) ==
    IF Len(price_history) >= AvgWindow
    THEN RDiv(RSum(LastN(price_history, AvgWindow)),
              Num(Len(LastN(price_history, AvgWindow))))
    ELSE CurrentPrice(price_history)

\* truthiness of an optional number: neither None nor zero
Truthy(x) == x # None /\ x[1] # 0

IntRank(n) == [kind |-> "int", v |-> n, l |-> <<>>]

\* sales_rank after product.get('salesRank', 999999) and the list normalisation
SalesRank(product) ==
    LET raw == IF product.hasSalesRank THEN product.salesRank ELSE IntRank(Unranked)
    IN  IF raw.kind = "list" /\ Len(raw.l) > 0
        THEN IntRank(IF raw.l[Len(raw.l)] > 0 THEN raw.l[Len(raw.l)] ELSE Unranked)
        ELSE raw

\* the rank -> velocity bands
Velocity(sales_rank) ==
    IF sales_rank < 1000 THEN
        [est_sales |-> 1500, est_sales_per_day |-> Num(50), velocity_category |-> "lightning"]
    ELSE IF sales_rank < 5000 THEN
        [est_sales |-> 800, est_sales_per_day |-> Num(27), velocity_category |-> "very_fast"]
    ELSE IF sales_rank < 20000 THEN
        [est_sales |-> 300, est_sales_per_day |-> Num(10), velocity_category |-> "fast"]
    ELSE IF sales_rank < 50000 THEN
        [est_sales |-> 100, est_sales_per_day |-> Num(3), velocity_category |-> "moderate"]
    ELSE IF sales_rank < 100000 THEN
        [est_sales |-> 30, est_sales_per_day |-> Num(1), velocity_category |-> "slow"]
    ELSE
        [est_sales |-> 10, est_sales_per_day |-> Rat(3, 10), velocity_category |-> "very_slow"]

\* seller_count: len(product['offers']) when the field is present and non-empty
SellerCount(product) == IF product.hasOffers /\ product.offers > 0 THEN product.offers ELSE 0

\* mutant: the older window is sliced [-10:] instead of [-10:-5]
TrendOlderWindowTooLong(price_history) ==
    IF Len(price_history) >= TrendWindow THEN
        LET recent_avg == RDiv(RSum(LastN(price_history, HalfWindow)), Num(HalfWindow))
            older_avg  == RDiv(RSum(LastN(price_history, TrendWindow)), Num(HalfWindow))
        IN  IF RGt(recent_avg, RMul(older_avg, RisingFactor)) THEN "rising"
            ELSE IF RLt(recent_avg, RMul(older_avg, FallingFactor)) THEN "falling"
            ELSE "stable"
    ELSE "stable"

Trend(price_history) ==
    IF Len(price_history) >= TrendWindow THEN
        LET recent_avg == RDiv(RSum(LastN(price_history, HalfWindow)), Num(HalfWindow))
            older_avg  == RDiv(RSum(SubSeq(price_history, Len(price_history) - TrendWindow + 1,
                                           Len(price_history) - HalfWindow)), Num(HalfWindow))
        IN  IF RGt(recent_avg, RMul(older_avg, RisingFactor)) THEN "rising"
            ELSE IF RLt(recent_avg, RMul(older_avg, FallingFactor)) THEN "falling"
            ELSE "stable"
    ELSE "stable"

TotalFees(current_price) == RAdd(RAdd(RMul(current_price, AmazonFeeRate), FbaFee), Shipping)

Profit(current_price) ==
    IF Truthy(current_price)
    THEN RSub(RSub(current_price, Num(BuyCost)), TotalFees(current_price))
    ELSE None

\* mutant: the return is taken on the sale price instead of the buy cost
RoiOnPrice(current_price) ==
    IF Truthy(current_price) /\ BuyCost > 0
    THEN RMul(RDiv(Profit(current_price), current_price), Hundred)
    ELSE None

RoiPercent(current_price) ==
    IF Truthy(current_price) /\ BuyCost > 0
    THEN RMul(RDiv(Profit(current_price), Num(BuyCost)), Hundred)
    ELSE None

BreakEvenPrice(current_price) ==
    IF Truthy(current_price)
    THEN RDiv(RAdd(RAdd(Num(BuyCost), FbaFee), Shipping), NetRate)
    ELSE None

PriceVsAvgPercent(current_price, avg_30) ==
    IF Truthy(current_price) /\ Truthy(avg_30)
    THEN RMul(RDiv(RSub(current_price, avg_30), avg_30), Hundred)
    ELSE None

PriceVsAvgSignal(current_price, avg_30) ==
    LET pct == PriceVsAvgPercent(current_price, avg_30)
    IN  IF pct = None THEN "neutral"
        ELSE IF RLe(pct, Num(-10)) THEN "excellent"
        ELSE IF RLe(pct, Num(-5)) THEN "good"
        ELSE IF RLe(pct, Num(5)) THEN "neutral"
        ELSE IF RLe(pct, Num(10)) THEN "caution"
        ELSE "bad"

CompetitionLevel(seller_count) ==
    IF seller_count > 0 THEN
        IF seller_count >= 50 THEN "very_high"
        ELSE IF seller_count >= 20 THEN "high"
        ELSE IF seller_count >= 10 THEN "moderate"
        ELSE IF seller_count >= 5 THEN "low"
        ELSE "very_low"
    ELSE "unknown"

\* the four additive risk factors: <<points, reason>> or <<0, "">>
\* mutant: the points of the two slower bands are swapped
VelocityRiskSwapped(sales_rank) ==
    IF sales_rank > 100000 THEN <<2, "Very slow sales">>
    ELSE IF sales_rank > 50000 THEN <<3, "Slow sales">>
    ELSE IF sales_rank > 20000 THEN <<1, "Moderate sales">>
    ELSE <<0, "">>

VelocityRisk(sales_rank) ==
    IF sales_rank > 100000 THEN <<3, "Very slow sales">>
    ELSE IF sales_rank > 50000 THEN <<2, "Slow sales">>
    ELSE IF sales_rank > 20000 THEN <<1, "Moderate sales">>
    ELSE <<0, "">>

CompetitionRisk(seller_count) ==
    IF seller_count >= 50 THEN <<3, "Very high competition">>
    ELSE IF seller_count >= 20 THEN <<2, "High competition">>
    ELSE IF seller_count >= 10 THEN <<1, "Moderate competition">>
    ELSE <<0, "">>

\* mutant: high volatility is scored 3 like the other top bands
VolatilityRiskThree(low_90, high_90) ==
    IF Truthy(low_90) /\ Truthy(high_90) /\ RGt(low_90, Num(0)) THEN
        LET volatility_percent == RMul(RDiv(RSub(high_90, low_90), low_90), Hundred)
        IN  IF RGt(volatility_percent, Num(50)) THEN <<3, "Highly volatile pricing">>
            ELSE IF RGt(volatility_percent, Num(25)) THEN <<1, "Somewhat volatile pricing">>
            ELSE <<0, "">>
    ELSE <<0, "">>

VolatilityRisk(low_90, high_90) ==
    IF Truthy(low_90) /\ Truthy(high_90) /\ RGt(low_90, Num(0)) THEN
        LET volatility_percent == RMul(RDiv(RSub(high_90, low_90), low_90), Hundred)
        IN  IF RGt(volatility_percent, Num(50)) THEN <<2, "Highly volatile pricing">>
            ELSE IF RGt(volatility_percent, Num(25)) THEN <<1, "Somewhat volatile pricing">>
            ELSE <<0, "">>
    ELSE <<0, "">>

ProfitRisk(profit) ==
    IF profit # None THEN
        IF RLt(profit, Num(0)) THEN <<2, "Negative profit margin">>
        ELSE IF RLt(profit, Num(5)) THEN <<1, "Low profit margin">>
        ELSE <<0, "">>
    ELSE <<0, "">>

RiskParts(sales_rank, seller_count, low_90, high_90, profit) ==
    <<VelocityRisk(sales_rank), CompetitionRisk(seller_count),
      VolatilityRisk(low_90, high_90), ProfitRisk(profit)>>

RiskScore(sales_rank, seller_count, low_90, high_90, profit) ==
    LET f == RiskParts(sales_rank, seller_count, low_90, high_90, profit)
    IN  f[1][1] + f[2][1] + f[3][1] + f[4][1]

RiskFactors(sales_rank, seller_count, low_90, high_90, profit) ==
    LET f == RiskParts(sales_rank, seller_count, low_90, high_90, profit)
    IN  SelectSeq(<<f[1][2], f[2][2], f[3][2], f[4][2]>>, LAMBDA t : t # "")

RiskLevel(risk_score) ==
    IF risk_score <= 2 THEN "LOW RISK"
    ELSE IF risk_score <= 4 THEN "MODERATE RISK"
    ELSE IF risk_score <= 6 THEN "HIGH RISK"
    ELSE "VERY HIGH RISK"

\* str(e) of the exception the derivation raises for this record, "" when none:
\* a sales rank that is None or an empty list reaches `sales_rank < 1000` unchanged
EvalError(product) ==
    LET rank == SalesRank(product)
    IN  IF rank.kind = "null"
        THEN "'<' not supported between instances of 'NoneType' and 'int'"
        ELSE IF rank.kind = "list"
        THEN "'<' not supported between instances of 'list' and 'int'"
        ELSE ""

\* the result dict of one record, from the values the derivation has computed
Result(upc, price_history, current_price, low_90, high_90, avg_30, sales_rank, velocity, seller_count, profit, risk_score) ==
    [upc |-> upc,
     current_price |-> current_price,
     avg_30 |-> avg_30,
     low_90 |-> low_90,
     high_90 |-> high_90,
     sales_rank |-> sales_rank,
     est_sales_month |-> velocity.est_sales,
     est_sales_per_day |-> velocity.est_sales_per_day,
     velocity_category |-> velocity.velocity_category,
     seller_count |-> seller_count,
     profit |-> profit,
     roi_percent |-> RoiPercent(current_price),
     break_even_price |-> BreakEvenPrice(current_price),
     price_vs_avg_percent |-> PriceVsAvgPercent(current_price, avg_30),
     price_vs_avg_signal |-> PriceVsAvgSignal(current_price, avg_30),
     competition_level |-> CompetitionLevel(seller_count),
     risk_score |-> risk_score,
     risk_level |-> RiskLevel(risk_score),
     risk_factors |-> RiskFactors(sales_rank, seller_count, low_90, high_90, profit),
     trend |-> Trend(price_history)]

\* the statistics of the price history, then the risk score, then the result
Derive(upc, price_history, current_price, low_90, high_90, sales_rank, seller_count, profit) ==
    Result(upc, price_history, current_price, low_90, high_90, Avg30(price_history),
           sales_rank, Velocity(sales_rank), seller_count, profit,
           RiskScore(sales_rank, seller_count, low_90, high_90, profit))

EvaluateHistory(upc, product, price_history, current_price) ==
    Derive(upc, price_history, current_price, Low90(price_history), High90(price_history),
           SalesRank(product).v, SellerCount(product), Profit(current_price))

\* the body of the inner try for one record that raises nothing
Evaluate(upc, product) ==
    EvaluateHistory(upc, product, PriceHistory(product), CurrentPrice(PriceHistory(product)))

(***************************************************************************)
(* The handler                                                             *)
(***************************************************************************)
NoResponse == [status |-> 0, kind |-> "none"]

ErrorResponse(status, message) == [status |-> status, kind |-> "error", error |-> message]

Init ==
    /\ pc = "idle"
    /\ keyConfigured \in BOOLEAN
    /\ upcs = <<>>
    /\ query = "none"
    /\ products = <<>>
    /\ idx = 0
    /\ results = <<>>
    /\ errors = <<>>
    /\ response = NoResponse

\* the outer except: the whole request answers {error: str(e)} with status 500
Abort(message) ==
    /\ pc' = "done"
    /\ response' = ErrorResponse(500, message)
    /\ UNCHANGED <<upcs, query, products, idx, results, errors>>

\* mutant: the failure of the query is reported once per identifier
QueryFailedFanOut(u, message) ==
    /\ pc' = "done"
    /\ query' = "threw"
    /\ errors' = [i \in 1..Len(u) |-> [upc |-> u[i], error |-> message]]
    /\ response' = [status |-> 200, kind |-> "ok",
                    results |-> <<>>, errors |-> errors',
                    summary |-> [total |-> Len(u), successful |-> 0, errors |-> Len(u)]]
    /\ UNCHANGED <<products, idx, results>>

\* api.query threw: the outer except answers for the whole request
QueryFailed(u, message) ==
    /\ pc' = "done"
    /\ query' = "threw"
    /\ response' = ErrorResponse(500, message)
    /\ UNCHANGED <<products, idx, results, errors>>

\* the request arrives: the checks on the request and the upstream query.
\* answer is what api.query does: it throws, or returns a list of products
Receive(u, answer) ==
    /\ pc = "idle"
    /\ upcs' = u
    /\ UNCHANGED keyConfigured
    /\ IF u = <<>> THEN
            /\ pc' = "done"
            /\ response' = ErrorResponse(400, "No UPCs provided")
            /\ UNCHANGED <<query, products, idx, results, errors>>
       ELSE IF Len(u) > MaxUpcs THEN
            /\ pc' = "done"
            /\ response' = ErrorResponse(400, "Too many UPCs")
            /\ UNCHANGED <<query, products, idx, results, errors>>
       ELSE IF ~keyConfigured THEN
            /\ pc' = "done"
            /\ response' = ErrorResponse(500, "Keepa API key not configured")
            /\ UNCHANGED <<query, products, idx, results, errors>>
       ELSE IF answer.throws THEN
            QueryFailed(u, answer.message)
       ELSE
            /\ pc' = "loop"
            /\ query' = "returned"
            /\ products' = answer.products
            /\ idx' = 1
            /\ results' = <<>>
            /\ errors' = <<>>
            /\ UNCHANGED response

\* mutant: no inner try, an exception of one record reaches the outer except
IterateWithoutInnerTry ==
    /\ pc = "loop"
    /\ idx <= Len(products)
    /\ UNCHANGED keyConfigured
    /\ IF idx > Len(upcs) THEN
            Abort("list index out of range")
       ELSE IF products[idx].present /\ EvalError(products[idx]) # "" THEN
            Abort(EvalError(products[idx]))
       ELSE
            /\ pc' = "loop"
            /\ idx' = idx + 1
            /\ UNCHANGED <<upcs, query, products, response>>
            /\ IF ~products[idx].present THEN
                    /\ errors' = Append(errors, [upc |-> upcs[idx], error |-> "Product not found"])
                    /\ UNCHANGED results
               ELSE
                    /\ results' = Append(results, Evaluate(upcs[idx], products[idx]))
                    /\ UNCHANGED errors

\* one iteration of `for idx, product in enumerate(products)`
Iterate ==
    /\ pc = "loop"
    /\ idx <= Len(products)
    /\ UNCHANGED keyConfigured
    /\ IF idx > Len(upcs) THEN
            \* upcs[idx] is outside the inner try: IndexError reaches the outer except
            Abort("list index out of range")
       ELSE
            LET upc == upcs[idx]
                product == products[idx]
            IN  /\ pc' = "loop"
                /\ idx' = idx + 1
                /\ UNCHANGED <<upcs, query, products, response>>
                /\ IF ~product.present THEN
                        /\ errors' = Append(errors, [upc |-> upc, error |-> "Product not found"])
                        /\ UNCHANGED results
                   ELSE IF EvalError(product) # "" THEN
                        /\ errors' = Append(errors, [upc |-> upc, error |-> EvalError(product)])
                        /\ UNCHANGED results
                   ELSE
                        /\ results' = Append(results, Evaluate(upc, product))
                        /\ UNCHANGED errors

\* the loop is over: the {results, errors, summary} response
Respond ==
    /\ pc = "loop"
    /\ idx > Len(products)
    /\ pc' = "done"
    /\ response' = [status |-> 200, kind |-> "ok",
                    results |-> results, errors |-> errors,
                    summary |-> [total |-> Len(upcs),
                                 successful |-> Len(results),
                                 errors |-> Len(errors)]]
    /\ UNCHANGED <<keyConfigured, upcs, query, products, idx, results, errors>>

\* the handler returns; its locals are gone and the next request can arrive
Reply ==
    /\ pc = "done"
    /\ pc' = "idle"
    /\ upcs' = <<>>
    /\ query' = "none"
    /\ products' = <<>>
    /\ idx' = 0
    /\ results' = <<>>
    /\ errors' = <<>>
    /\ response' = NoResponse
    /\ UNCHANGED keyConfigured

(***************************************************************************)
(* Inputs: requests and upstream answers                                   *)
(***************************************************************************)
MaxBatch == 2
MaxRun == 30
MaxTail == 12
MaxRankList == 3

Upcs == {"u1", "u2"}

SeqsUpTo(S, n) == UNION {[1..k -> S] : k \in 0..n}

Rep(v, n) == [i \in 1..n |-> v]

Sentinel == Rat(-1, 100)

AbsentRank == [kind |-> "absent", v |-> 0, l |-> <<>>]
NullRank == [kind |-> "null", v |-> 0, l |-> <<>>]
ListRank(l) == [kind |-> "list", v |-> 0, l |-> l]

\* a product as the upstream library parses it: NEW comes with NEW_time
Product(hasData, hasNEW, new, rank, hasOffers, offers) ==
    [present |-> TRUE, hasData |-> hasData, hasNEW |-> hasNEW, hasNEWtime |-> hasNEW,
     dataNEW |-> new, hasSalesRank |-> rank.kind # "absent", salesRank |-> rank,
     hasOffers |-> hasOffers, offers |-> offers]

\* the entry of an identifier the upstream does not know (None)
NotFound ==
    [present |-> FALSE, hasData |-> FALSE, hasNEW |-> FALSE, hasNEWtime |-> FALSE,
     dataNEW |-> <<>>, hasSalesRank |-> FALSE, salesRank |-> AbsentRank,
     hasOffers |-> FALSE, offers |-> 0]

Returns(prods) == [throws |-> FALSE, message |-> "", products |-> prods]
Throws(message) == [throws |-> TRUE, message |-> message, products |-> <<>>]

\* --- batches: found, not found and malformed records in every position ---
BatchProducts ==
    { NotFound,
      Product(TRUE, TRUE, <<Num(38), None, Num(40)>>, ListRank(<<0, 0, 150000>>), TRUE, 3),
      Product(FALSE, FALSE, <<>>, AbsentRank, FALSE, 0),
      Product(TRUE, TRUE, <<Num(40)>>, NullRank, TRUE, 12),
      Product(TRUE, TRUE, <<Sentinel>>, ListRank(<<>>), FALSE, 0) }

BatchUpcs == SeqsUpTo(Upcs, MaxBatch) \cup {Rep("u1", MaxUpcs + 1)}

BatchAnswers ==
    {Returns(ps) : ps \in SeqsUpTo(BatchProducts, MaxBatch + 1)}
        \cup {Throws("upstream request failed")}

\* --- price series: an optional odd entry, a long run and a short run ---
RawEntries == {None, Sentinel, Num(40), Num(50)}

PriceSeries ==
    { Rep(x, k) \o Rep(a, n) \o Rep(b, m) :
        x \in {None, Sentinel, Num(0), Num(20)}, k \in 0..1,
        a \in RawEntries, n \in 0..MaxRun,
        b \in RawEntries, m \in 0..MaxTail }

PriceAnswers ==
    {Returns(<<Product(TRUE, TRUE, new, IntRank(500), TRUE, 3)>>) : new \in PriceSeries}

\* --- sales ranks of every shape ---
RankValues == {0, 500, 150000}

RankShapes ==
    {AbsentRank, NullRank} \cup {IntRank(n) : n \in RankValues \cup {-1}}
        \cup {ListRank(l) : l \in SeqsUpTo(RankValues, MaxRankList)}

RankAnswers ==
    {Returns(<<Product(TRUE, TRUE, <<Num(40)>>, rank, FALSE, 0)>>) : rank \in RankShapes}

\* --- pairs of records over the bands of every risk factor ---
RiskRanks == {20000, 20001, 50001, 100001}
RiskSellers == {9, 10, 20, 50}
RiskSeries ==
    { <<>>, <<Num(40)>>, <<Num(45)>>, <<Num(50)>>, <<Num(40), Num(50)>>, <<Num(50), Num(40)>>,
      <<Num(38), Num(50)>>, <<Num(20), Num(50)>>, <<Num(50), Num(20)>> }

RiskProducts ==
    { Product(TRUE, TRUE, new, IntRank(rank), TRUE, offers) :
        new \in RiskSeries, rank \in RiskRanks, offers \in RiskSellers }

RiskAnswers == {Returns(<<p, q>>) : p, q \in RiskProducts}

(***************************************************************************)
(* Specifications                                                          *)
(***************************************************************************)
\* the deployment has its API key set
InitConfigured == Init /\ keyConfigured

\* a request with its upstream answer, drawn from each family of inputs
Request == pc = "idle" /\ \E u \in BatchUpcs, answer \in BatchAnswers : Receive(u, answer)

RequestPrice == pc = "idle" /\ \E answer \in PriceAnswers : Receive(<<"u1">>, answer)

RequestRank == pc = "idle" /\ \E answer \in RankAnswers : Receive(<<"u1">>, answer)

RequestRisk == pc = "idle" /\ \E answer \in RiskAnswers : Receive(<<"u1", "u2">>, answer)

Next == Request \/ Iterate \/ Respond \/ Reply

Spec == Init /\ [][Next]_vars

NextPrice == RequestPrice \/ Iterate \/ Respond \/ Reply

SpecPrice == InitConfigured /\ [][NextPrice]_vars

NextRank == RequestRank \/ Iterate \/ Respond \/ Reply

SpecRank == InitConfigured /\ [][NextRank]_vars

NextRisk == RequestRisk \/ Iterate \/ Respond \/ Reply

SpecRisk == InitConfigured /\ [][NextRisk]_vars

(***************************************************************************)
(* Properties                                                              *)
(***************************************************************************)

\* the valid price series of a record as the specification defines it: the raw
\* NEW prices without the None and the non-positive entries, in their order
RECURSIVE KeepValid(_, _)
KeepValid(prices, i) ==
    IF i = 0 THEN <<>>
    ELSE IF prices[i] # None /\ prices[i][1] > 0
         THEN Append(KeepValid(prices, i - 1), prices[i])
         ELSE KeepValid(prices, i - 1)

ValidSeries(product) ==
    IF product.hasData /\ product.hasNEW
    THEN KeepValid(product.dataNEW, Len(product.dataNEW))
    ELSE <<>>

\* the sum of s[from..to]
RECURSIVE SumRange(_, _, _)
SumRange(s, from, to) ==
    IF from > to THEN Num(0) ELSE RAdd(s[from], SumRange(s, from + 1, to))

\* no record of the batch has failed so far: results[i] is the result of products[i]
Paired == pc \in {"loop", "done"} /\ query = "returned" /\ errors = <<>>

\* a record whose sales rank field is malformed (None, or an empty list)
Malformed(product) ==
    /\ product.present
    /\ product.hasSalesRank
    /\ \/ product.salesRank.kind = "null"
       \/ product.salesRank.kind = "list" /\ product.salesRank.l = <<>>

Failing(product) == ~product.present \/ Malformed(product)

FailuresUpTo(i) == Cardinality({j \in 1..i : Failing(products[j])})

\* C1: a record that fails (not found, or a malformed field that makes its
\* evaluation raise) gets its own entry in the error list, keyed by its
\* identifier and with a textual reason, and does not abort the batch: every
\* record before and after it is still processed, and the request is answered
\* with the {results, errors, summary} object.
C1_PerRecordFailuresAreIsolated ==
    /\ (pc = "loop") =>
            /\ Len(results) + Len(errors) = idx - 1
            /\ \A i \in 1..(idx - 1) :
                    IF Failing(products[i])
                    THEN /\ errors[FailuresUpTo(i)].upc = upcs[i]
                         /\ errors[FailuresUpTo(i)].error # ""
                         /\ Malformed(products[i]) =>
                                errors[FailuresUpTo(i)].error # "Product not found"
                    ELSE results[i - FailuresUpTo(i)].upc = upcs[i]
    /\ (pc = "done" /\ query = "returned" /\ Len(products) <= Len(upcs)) =>
            /\ response.kind = "ok"
            /\ response.status = 200
            /\ Len(response.results) + Len(response.errors) = Len(products)
            /\ response.summary.errors = FailuresUpTo(Len(products))

C1_Witness ==
    /\ pc = "done"
    /\ response.kind = "ok"
    /\ Len(products) = 2
    /\ Malformed(products[1])
    /\ ~Failing(products[2])
    /\ Len(response.errors) = 1
    /\ Len(response.results) = 1

\* C2 (as stated): when the upstream query throws, the error list holds exactly
\* one entry for each submitted identifier.
C2_UpstreamFailureFansOut ==
    (pc = "done" /\ query = "threw") =>
        /\ response.kind = "ok"
        /\ Len(errors) = Len(upcs)
        /\ \A i \in 1..Len(upcs) : errors[i].upc = upcs[i]

\* C2 (amended): when the upstream query throws, the failure is caught and the
\* whole request is answered with one {error: reason} object with status 500;
\* no per-identifier entry is produced, the result and error lists stay empty.
C2_UpstreamFailureIsOneError ==
    (pc = "done" /\ query = "threw") =>
        /\ response.kind = "error"
        /\ response.status = 500
        /\ response.error # ""
        /\ errors = <<>>
        /\ results = <<>>

C2_Witness == pc = "done" /\ query = "threw" /\ Len(upcs) = 2 /\ response.status = 500

\* C3: with the valid series of a record, current_price is its last entry (None
\* when it is empty); avg_30 equals current_price when the series has fewer
\* than 30 entries and the mean of exactly its last 30 entries otherwise.
C3_MovingAverage ==
    Paired =>
        \A i \in 1..Len(results) :
            LET v == ValidSeries(products[i])
                r == results[i]
            IN  /\ r.current_price = (IF v = <<>> THEN None ELSE v[Len(v)])
                /\ Len(v) < 30 => r.avg_30 = r.current_price
                /\ Len(v) >= 30 =>
                        /\ r.avg_30 # None
                        /\ RMul(r.avg_30, Num(30)) = SumRange(v, Len(v) - 29, Len(v))

C3_Witness ==
    /\ Paired
    /\ Len(results) = 1
    /\ Len(ValidSeries(products[1])) > 30
    /\ Len(products[1].dataNEW) > Len(ValidSeries(products[1]))
    /\ results[1].avg_30 # results[1].current_price

\* C4: trend is stable with fewer than 10 valid prices; with at least 10, with
\* recentAvg the mean of the last 5 and olderAvg the mean of the 5 before them,
\* it is rising iff recentAvg > olderAvg * 1.05, falling iff recentAvg <
\* olderAvg * 0.95, stable otherwise; older entries play no part.
C4_Trend ==
    Paired =>
        \A i \in 1..Len(results) :
            LET v == ValidSeries(products[i])
                n == Len(v)
                recent == SumRange(v, n - 4, n)
                older == SumRange(v, n - 9, n - 5)
                t == results[i].trend
            IN  /\ t \in {"rising", "falling", "stable"}
                /\ n < 10 => t = "stable"
                /\ n >= 10 =>
                        /\ t = "rising" <=> RGt(RMul(recent, Num(20)), RMul(older, Num(21)))
                        /\ t = "falling" <=> RLt(RMul(recent, Num(20)), RMul(older, Num(19)))

C4_Witness ==
    /\ Paired
    /\ Len(results) = 1
    /\ Len(ValidSeries(products[1])) > 10
    /\ ValidSeries(products[1])[1] = Num(20)
    /\ results[1].trend = "falling"

\* C5: profit, roi_percent and break_even_price are all None exactly when
\* current_price is None; otherwise all three are numbers, profit is
\* current_price - 30 - (current_price * 0.15 + 3.99 + 2.00), i.e.
\* 100 * profit = 85 * current_price - 3599, and roi_percent = profit / 30 * 100.
C5_ProfitAndRoi ==
    Paired =>
        \A i \in 1..Len(results) :
            LET r == results[i]
            IN  IF r.current_price = None
                THEN r.profit = None /\ r.roi_percent = None /\ r.break_even_price = None
                ELSE /\ r.profit # None /\ r.roi_percent # None /\ r.break_even_price # None
                     /\ RMul(r.profit, Num(100)) = RSub(RMul(Num(85), r.current_price), Num(3599))
                     /\ RMul(r.roi_percent, Num(30)) = RMul(r.profit, Num(100))

C5_Witness ==
    /\ Paired
    /\ Len(results) = 1
    /\ results[1].current_price = Num(50)
    /\ results[1].profit = Rat(651, 100)
    /\ results[1].roi_percent = Rat(217, 10)

\* the rank the specification asks for: the last element of a sequence, and
\* 999999 for a rank of 0 or an absent rank, in whichever shape it comes
NormalizedRank(product) ==
    LET f == product.salesRank
        given == IF f.kind = "list" THEN (IF f.l = <<>> THEN 0 ELSE f.l[Len(f.l)]) ELSE f.v
    IN  IF ~product.hasSalesRank \/ f.kind = "null" \/ given = 0 THEN 999999 ELSE given

\* C6: the sales rank used for the velocity and the risk score is normalized
\* for every input shape: the last element of a sequence is taken, and a rank
\* of 0 or an absent rank (scalar, last element, or missing field) becomes
\* 999999, so a rank of 0 is never classified into a selling band.
C6_RankNormalized ==
    (pc = "done" /\ query = "returned") =>
        /\ Len(results) = Len(products)
        /\ \A i \in 1..Len(results) :
                /\ results[i].sales_rank = NormalizedRank(products[i])
                /\ NormalizedRank(products[i]) = 999999 =>
                        results[i].velocity_category = "very_slow"

\* the volatility ratio (high_90 - low_90) / low_90 of a result, None without prices
Volatility(r) ==
    IF r.low_90 = None THEN None ELSE RDiv(RSub(r.high_90, r.low_90), r.low_90)

SameButRank(r1, r2) ==
    /\ r1.seller_count = r2.seller_count
    /\ Volatility(r1) = Volatility(r2)
    /\ r1.profit = r2.profit

SameButSellers(r1, r2) ==
    /\ r1.sales_rank = r2.sales_rank
    /\ Volatility(r1) = Volatility(r2)
    /\ r1.profit = r2.profit

SameButVolatility(r1, r2) ==
    /\ r1.sales_rank = r2.sales_rank
    /\ r1.seller_count = r2.seller_count
    /\ r1.profit = r2.profit
    /\ Volatility(r1) # None
    /\ Volatility(r2) # None

SameButProfit(r1, r2) ==
    /\ r1.sales_rank = r2.sales_rank
    /\ r1.seller_count = r2.seller_count
    /\ Volatility(r1) = Volatility(r2)
    /\ r1.profit # None
    /\ r2.profit # None

\* C7: of two evaluated records that differ in one risk factor only, the one
\* with the larger sales rank, the larger seller count, the larger volatility
\* ratio or the smaller profit never has the lower risk score.
C7_RiskMonotone ==
    Paired =>
        \A i, j \in 1..Len(results) :
            LET r1 == results[i]
                r2 == results[j]
            IN  /\ (SameButRank(r1, r2) /\ r1.sales_rank <= r2.sales_rank)
                        => r1.risk_score <= r2.risk_score
                /\ (SameButSellers(r1, r2) /\ r1.seller_count <= r2.seller_count)
                        => r1.risk_score <= r2.risk_score
                /\ (SameButVolatility(r1, r2) /\ RLe(Volatility(r1), Volatility(r2)))
                        => r1.risk_score <= r2.risk_score
                /\ (SameButProfit(r1, r2) /\ RLe(r2.profit, r1.profit))
                        => r1.risk_score <= r2.risk_score

C7_Witness ==
    /\ pc = "done"
    /\ Len(results) = 2
    /\ SameButRank(results[1], results[2])
    /\ results[1].sales_rank = 50001
    /\ results[2].sales_rank = 100001
    /\ results[1].risk_score = 5
    /\ results[2].risk_score = 6

\* C8: the risk score of every evaluated record is an integer from 0 to 10:
\* each of the four factors is applied at most once.
C8_RiskScoreRange ==
    \A i \in 1..Len(results) :
        /\ results[i].risk_score \in 0..10
        /\ Len(results[i].risk_factors) <= 4

C8_Witness ==
    /\ pc = "done"
    /\ Len(results) = 2
    /\ results[1].risk_score = 10
    /\ Len(results[1].risk_factors) = 4
    /\ results[2].risk_score = 0

\* C9: in the {results, errors, summary} response every submitted identifier
\* is accounted for exactly once, in submission order, so that successful +
\* errors = total, also when the upstream answers with a number of entries
\* other than the number of identifiers.
C9_EveryIdentifierAccounted ==
    (pc = "done" /\ response.kind = "ok") =>
        /\ response.summary.successful + response.summary.errors = response.summary.total
        /\ \A i \in 1..Len(upcs) :
                \/ \E k \in 1..Len(response.results) : response.results[k].upc = upcs[i]
                \/ \E k \in 1..Len(response.errors) : response.errors[k].upc = upcs[i]

\* C10: a record with fewer than 30 valid prices has the signal neutral: its
\* price_vs_avg_percent is None (no price) or exactly 0.
C10_ShortSeriesNeutral ==
    Paired =>
        \A i \in 1..Len(results) :
            Len(ValidSeries(products[i])) < 30 =>
                /\ results[i].price_vs_avg_signal = "neutral"
                /\ results[i].price_vs_avg_percent \in {None, Num(0)}

C10_Witness ==
    /\ Paired
    /\ Len(results) = 1
    /\ Len(ValidSeries(products[1])) = 29
    /\ ValidSeries(products[1])[1] = Num(40)
    /\ results[1].current_price = Num(50)
    /\ results[1].price_vs_avg_percent = Num(0)
    /\ results[1].price_vs_avg_signal = "neutral"

====
